---------------------------- MODULE Spec2Model ----------------------------
(***************************************************************************)
(* Birthday-Reminder-Bot (src/main.py): the record store (table            *)
(* birthdays), the APScheduler job set, the aiogram conversation sessions  *)
(* and the handlers and job actions that run as asyncio tasks, interleaved *)
(* at their await points.                                                  *)
(*                                                                         *)
(* Instants are seconds since 2000-01-01 00:00:00 UTC.  A datetime in the  *)
(* reference timezone (Europe/Moscow, UTC+3 with no daylight saving in the *)
(* modelled years) is a record [year, month, day, hour, minute, second].   *)
(* A birthdate is the stored text DD.MM.YYYY as <<DD, MM, YYYY>>, a        *)
(* reminder time the stored text HH:MM as <<HH, MM>>.                      *)
(***************************************************************************)
EXTENDS Integers, Sequences, FiniteSets, Bags, TLC

VARIABLES now, phase, store, jobs, sessions, tasks, fired, ops

vars == <<now, phase, store, jobs, sessions, tasks, fired, ops>>

----------------------------------------------------------------------------
(* Bounds of the model *)

\* user operations (sessions opened) in one run
MaxOps == 2
\* handlers in flight at the same time
MaxTasks == 2
\* rows the table may hold
MaxRows == 2
\* the clock stops at the end of this year
LastYear == 2025

----------------------------------------------------------------------------
(* The universe of inputs *)

\* the owner (message.from_user.id)
Users == {1}
\* message.chat.id: chat 1 is the owner's private chat, chat 2 a group
Chats == {1, 2}
Names == {"Anna"}
Birthdates == {<<15, 5, 1990>>}
\* reminder times typed in the add form, and in the settings form
AddTimes == {<<9, 0>>}
EditTimes == {<<10, 0>>}
\* no profile handle (None)
None == "None"
AddUsernames == {None}
EditUsernames == {"anna", None}
\* outcomes of the flags menu: enable all, disable all, manual settings
FlagChoices == {<<1, 1, 1>>, <<0, 0, 0>>, <<0, 1, 1>>, <<1, 1, 0>>}

Kinds == {"3d", "1d", "day_notification", "day_congrats", "annual"}

----------------------------------------------------------------------------
(* Calendar *)

SecondsPerDay == 24 * 3600
\* Europe/Moscow is UTC+3
MoscowOffset == 3 * 3600

IsLeap(y) == (y % 4 = 0 /\ y % 100 # 0) \/ y % 400 = 0

DaysInMonth(y, m) ==
    IF m = 2 THEN (IF IsLeap(y) THEN 29 ELSE 28)
    ELSE IF m \in {4, 6, 9, 11} THEN 30 ELSE 31

ValidDate(y, m, d) == m \in 1..12 /\ d >= 1 /\ d <= DaysInMonth(y, m)

\* days from 1970-01-01 to the civil date y-m-d
DaysFromCivil(y, m, d) ==
    LET yy  == IF m <= 2 THEN y - 1 ELSE y
        era == yy \div 400
        yoe == yy - era * 400
        mp  == IF m > 2 THEN m - 3 ELSE m + 9
        doy == (153 * mp + 2) \div 5 + d - 1
        doe == yoe * 365 + yoe \div 4 - yoe \div 100 + doy
    IN  era * 146097 + doe - 719468

EpochDays == DaysFromCivil(2000, 1, 1)

\* a wall-clock datetime of the reference timezone as seconds of local time
LocalSecs(dt) ==
    (DaysFromCivil(dt.year, dt.month, dt.day) - EpochDays) * SecondsPerDay
        + dt.hour * 3600 + dt.minute * 60 + dt.second

\* datetime.astimezone(ZoneInfo("UTC")): the instant of a Moscow datetime
ToUTC(dt) == LocalSecs(dt) - MoscowOffset

DT(y, m, d, h, mi, s) ==
    [year |-> y, month |-> m, day |-> d, hour |-> h, minute |-> mi, second |-> s]

\* the instants at which the owner writes to the bot: before the 3-day
\* reminder of 2024, and at the reminder time of the birthday itself
StartInstant == ToUTC(DT(2024, 5, 10, 8, 0, 0))
ActInstants == {StartInstant, ToUTC(DT(2024, 5, 15, 9, 0, 0))}

\* get_moscow_now().year
MoscowYear(t) ==
    CHOOSE y \in (2023..(LastYear + 2)) :
        /\ ToUTC(DT(y, 1, 1, 0, 0, 0)) <= t
        /\ t < ToUTC(DT(y + 1, 1, 1, 0, 0, 0))

\* the civil date <<DD, MM, YYYY>> of day number n (days since 1970-01-01)
CivilFromDays(n) ==
    LET z   == n + 719468
        era == z \div 146097
        doe == z - era * 146097
        yoe == (doe - doe \div 1460 + doe \div 36524 - doe \div 146096) \div 365
        doy == doe - (365 * yoe + yoe \div 4 - yoe \div 100)
        mp  == (5 * doy + 2) \div 153
        d   == doy - (153 * mp + 2) \div 5 + 1
        m   == IF mp < 10 THEN mp + 3 ELSE mp - 9
        y   == yoe + era * 400
    IN  <<d, m, IF m <= 2 THEN y + 1 ELSE y>>

\* get_moscow_now() as a date: <<day, month, year>>
MoscowDate(t) == CivilFromDays((t + MoscowOffset) \div SecondsPerDay + EpochDays)

\* calculate_age(birthdate_str) at the instant t: today.year - birthdate.year
\* - ((today.month, today.day) < (birthdate.month, birthdate.day))
calculate_age(bd, t) ==
    LET today == MoscowDate(t)
    IN  today[3] - bd[3]
          - (IF today[2] < bd[2] \/ (today[2] = bd[2] /\ today[1] < bd[1]) THEN 1 ELSE 0)

\* a faulty variant of calculate_age_on_date: the difference of the years
age_by_years(bd, target) == target.year - bd[3]

\* calculate_age_on_date(birthdate_str, target_date), target_date a datetime
calculate_age_on_date(bd, target) ==
    target.year - bd[3]
      - (IF target.month < bd[2] \/ (target.month = bd[2] /\ target.day < bd[1])
         THEN 1 ELSE 0)

\* a faulty variant of get_age_category: the bounds belong to the lower class
age_category_exclusive(age) ==
    IF age <= 13 THEN "child"
    ELSE IF age <= 18 THEN "teen"
    ELSE IF age <= 26 THEN "young_adult"
    ELSE IF age <= 60 THEN "adult"
    ELSE "elder"

get_age_category(age) ==
    IF age < 13 THEN "child"
    ELSE IF age < 18 THEN "teen"
    ELSE IF age < 26 THEN "young_adult"
    ELSE IF age < 60 THEN "adult"
    ELSE "elder"

\* GIFT_IDEAS: the number of gifts listed for a category
GIFT_IDEAS ==
    [child |-> 9, teen |-> 10, young_adult |-> 9, adult |-> 10, elder |-> 10]

\* generate_congrats at the instant t: the age and the category the text
\* and the gift (random.choice(GIFT_IDEAS[age_category])) are made from
generate_congrats(bd, t) ==
    LET age == calculate_age(bd, t) + 1
    IN  [age |-> age, category |-> get_age_category(age)]

\* datetime.strptime(birthdate_str, '%d.%m.%Y'): ValueError on no calendar date
StrptimeOK(bd) == ValidDate(bd[3], bd[2], bd[1])

\* get_next_birthday: [ok, dt]; ok = FALSE is the ValueError of
\* datetime.replace on a date the target year does not have
get_next_birthday(bd, rt, t) ==
    LET y    == MoscowYear(t)
        this == DT(y, bd[2], bd[1], rt[1], rt[2], 0)
        next == DT(y + 1, bd[2], bd[1], rt[1], rt[2], 0)
    IN  IF ~ValidDate(y, bd[2], bd[1]) THEN [ok |-> FALSE, dt |-> this]
        ELSE IF ToUTC(this) < t
             THEN [ok |-> ValidDate(y + 1, bd[2], bd[1]), dt |-> next]
             ELSE [ok |-> TRUE, dt |-> this]

----------------------------------------------------------------------------
(* The job scheduler (AsyncIOScheduler with its in-memory job store) *)

\* arguments a job kind does not carry
NoUn == "-"
NoBd == <<0, 0, 0>>
NoRt == <<0, 0>>

\* a pending job: its id is {chat}_{name}_{kind}, its trigger DateTrigger(due)
Job(c, n, k, due, un, bd, rt) ==
    [chat |-> c, name |-> n, kind |-> k, due |-> due, un |-> un, bd |-> bd, rt |-> rt]

HasJob(J, c, n, k) == \E j \in J : j.chat = c /\ j.name = n /\ j.kind = k

\* scheduler.add_job(..., id=job_id) on the running scheduler: [ok, jobs];
\* ok = FALSE is ConflictingIdError (replace_existing is not passed)
add_job(J, j) ==
    IF HasJob(J, j.chat, j.name, j.kind)
    THEN [ok |-> FALSE, jobs |-> J]
    ELSE [ok |-> TRUE, jobs |-> J \cup {j}]

\* a run of add_job calls, stopped by the first one that raises
RECURSIVE AddAll(_, _)
AddAll(J, js) ==
    IF js = <<>> THEN [ok |-> TRUE, jobs |-> J]
    ELSE LET r == add_job(J, Head(js))
         IN  IF r.ok THEN AddAll(r.jobs, Tail(js)) ELSE r

\* scheduler.remove_job(job_id): [raised, jobs]; raised = TRUE is the
\* JobLookupError of an id that is not pending
scheduler_remove_job(J, c, n, k) ==
    [raised |-> ~HasJob(J, c, n, k),
     jobs |-> {j \in J : ~(j.chat = c /\ j.name = n /\ j.kind = k)}]

\* a faulty variant of try_remove_job: the call without its try/except
remove_job_unguarded(J, c, n, k) == scheduler_remove_job(J, c, n, k)
\* try: scheduler.remove_job(job_id) except: pass
try_remove_job(J, c, n, k) ==
    [raised |-> FALSE, jobs |-> scheduler_remove_job(J, c, n, k).jobs]

remove_job(J, c, n, k) == try_remove_job(J, c, n, k).jobs

\* remove_specific_reminder(chat_id, name, reminder_type)
remove_specific_reminder(J, c, n, k) == remove_job(J, c, n, k)

\* a faulty variant of remove_scheduled_reminders: the annual id is left out
remove_four_reminders(J, c, n) ==
    remove_job(remove_job(remove_job(remove_job(J,
        c, n, "3d"), c, n, "1d"), c, n, "day_notification"), c, n, "day_congrats")
\* remove_scheduled_reminders(chat_id, name): the five ids, one after another
remove_scheduled_reminders(J, c, n) ==
    remove_job(remove_job(remove_job(remove_job(remove_job(J,
        c, n, "3d"), c, n, "1d"), c, n, "day_notification"),
        c, n, "day_congrats"), c, n, "annual")

----------------------------------------------------------------------------
(* schedule_reminders: the due-instants and the jobs of one arm *)

\* offset of the day-congratulation after the day-notification
CongratsDelay == 2

Due3d(nb) == ToUTC(nb) - 3 * SecondsPerDay
Due1d(nb) == ToUTC(nb) - 1 * SecondsPerDay
DueDay(nb) == ToUTC(nb)
DueCongrats(nb) == ToUTC(nb) + CongratsDelay
\* next_birthday.replace(year=next_birthday.year + 1), then + timedelta(days=1)
NextYear(nb) == [nb EXCEPT !.year = nb.year + 1]
NextYearOK(nb) == ValidDate(nb.year + 1, nb.month, nb.day)
\* a faulty variant of DueAnnual: the year is not advanced
DueAnnualSameYear(nb) == ToUTC(nb) + 1 * SecondsPerDay
DueAnnual(nb) == ToUTC(NextYear(nb)) + 1 * SecondsPerDay

Job3d(c, n, nb) == Job(c, n, "3d", Due3d(nb), NoUn, NoBd, NoRt)
Job1d(c, n, nb) == Job(c, n, "1d", Due1d(nb), NoUn, NoBd, NoRt)
JobDay(c, n, nb, un) == Job(c, n, "day_notification", DueDay(nb), un, NoBd, NoRt)
JobCongrats(c, n, nb, bd) == Job(c, n, "day_congrats", DueCongrats(nb), NoUn, bd, NoRt)
JobAnnual(c, n, nb, un, bd, rt) == Job(c, n, "annual", DueAnnual(nb), un, bd, rt)

\* the add_job calls between the flags SELECT and the next await
ArmFirst(c, n, nb, r, un) ==
    (IF r[1] # 0 THEN <<Job3d(c, n, nb)>> ELSE <<>>)
    \o (IF r[2] # 0 THEN <<Job1d(c, n, nb)>> ELSE <<>>)
    \o (IF r[3] # 0 THEN <<JobDay(c, n, nb, un)>> ELSE <<>>)

\* the add_job calls that end an arm: [ok, jobs]; ok = FALSE is the
\* ValueError of replace(year=...) or the ConflictingIdError of add_job
ArmAnnual(J, c, n, nb, un, bd, rt) ==
    IF ~NextYearOK(nb) THEN [ok |-> FALSE, jobs |-> J]
    ELSE add_job(J, JobAnnual(c, n, nb, un, bd, rt))

\* the job kinds the flags r = <<remind_3_days, remind_1_day, remind_day>> call for
KindsFor(r) ==
    (IF r[1] # 0 THEN {"3d"} ELSE {})
    \cup (IF r[2] # 0 THEN {"1d"} ELSE {})
    \cup (IF r[3] # 0 THEN {"day_notification", "day_congrats"} ELSE {})
    \cup {"annual"}

----------------------------------------------------------------------------
(* The record store: table birthdays, rows in rowid order *)

Row(u, c, n, bd, un, rt, r) ==
    [user |-> u, chat |-> c, name |-> n, bd |-> bd, un |-> un, rt |-> rt, r |-> r]

\* remind_3_days, remind_1_day, remind_day BOOLEAN DEFAULT 1
DefaultFlags == <<1, 1, 1>>

\* ... WHERE name = ? AND chat_id = ?
ByChat(S, n, c) == {i \in 1..Len(S) : S[i].name = n /\ S[i].chat = c}
\* ... WHERE name = ? AND user_id = ?
ByUser(S, n, u) == {i \in 1..Len(S) : S[i].name = n /\ S[i].user = u}

Min(X) == CHOOSE x \in X : \A y \in X : x <= y

\* cursor.fetchone() of a non-empty result
First(S, X) == S[Min(X)]

\* UPDATE birthdays SET reminder_time = ? WHERE name = ? AND user_id = ?
RECURSIVE UpdateTime(_, _, _, _)
UpdateTime(S, n, u, rt) ==
    IF S = <<>> THEN <<>>
    ELSE <<IF Head(S).name = n /\ Head(S).user = u
           THEN [Head(S) EXCEPT !.rt = rt] ELSE Head(S)>>
         \o UpdateTime(Tail(S), n, u, rt)

\* UPDATE birthdays SET remind_3_days = ?, remind_1_day = ?, remind_day = ? WHERE ...
RECURSIVE UpdateFlags(_, _, _, _)
UpdateFlags(S, n, u, r) ==
    IF S = <<>> THEN <<>>
    ELSE <<IF Head(S).name = n /\ Head(S).user = u
           THEN [Head(S) EXCEPT !.r = r] ELSE Head(S)>>
         \o UpdateFlags(Tail(S), n, u, r)

\* UPDATE birthdays SET telegram_username = ? WHERE name = ? AND user_id = ?
RECURSIVE UpdateUsername(_, _, _, _)
UpdateUsername(S, n, u, un) ==
    IF S = <<>> THEN <<>>
    ELSE <<IF Head(S).name = n /\ Head(S).user = u
           THEN [Head(S) EXCEPT !.un = un] ELSE Head(S)>>
         \o UpdateUsername(Tail(S), n, u, un)

\* DELETE FROM birthdays WHERE name = ? AND user_id = ?
RECURSIVE DeleteRows(_, _, _)
DeleteRows(S, n, u) ==
    IF S = <<>> THEN <<>>
    ELSE IF Head(S).name = n /\ Head(S).user = u
         THEN DeleteRows(Tail(S), n, u)
         ELSE <<Head(S)>> \o DeleteRows(Tail(S), n, u)

----------------------------------------------------------------------------
(* Conversation sessions (FSM state and data of a chat) and running tasks *)

NoDT == DT(0, 0, 0, 0, 0, 0)
NoFlags == <<0, 0, 0>>

NoSession ==
    [form |-> "none", param |-> "-", name |-> "-", bd |-> NoBd, rt |-> NoRt, un |-> NoUn]

\* a task of the event loop: a handler, a job's coroutine or main, stopped
\* at pc.  tasks is the bag of the tasks in flight
Task(h, pc) ==
    [h |-> h, pc |-> pc, chat |-> 0, user |-> 0, name |-> "-",
     kind |-> "-", bd |-> NoBd, rt |-> NoRt, un |-> NoUn, r |-> NoFlags,
     nb |-> NoDT, rows |-> <<>>]

Running == BagToSet(tasks)
\* how many tasks of the set S are in flight
InFlight(S) == BagCardinality([t \in S \cap Running |-> tasks[t]])
Handlers == {t \in Running : t.h \notin {"job", "main"}}

Spawn(t) ==
    /\ InFlight(Handlers) < MaxTasks
    /\ tasks' = tasks (+) SetToBag({t})

Become(t, t2) == tasks' = (tasks (-) SetToBag({t})) (+) SetToBag({t2})
Finish(t) == tasks' = tasks (-) SetToBag({t})

\* schedule_reminders returns to its caller: a job's coroutine ends, main goes
\* on with the next row, a handler answers
Return(t, t2) ==
    IF t.h = "job" THEN Finish(t)
    ELSE Become(t, [t2 EXCEPT !.pc = IF t.h = "main" THEN "rehydrate" ELSE "clear"])

\* the table as an earlier run of the bot left it
InitStores ==
    {<<>>} \cup
    {<<Row(u, 1, n, bd, un, rt, r)>> :
        u \in Users, n \in Names, bd \in Birthdates, un \in AddUsernames,
        rt \in AddTimes, r \in {<<1, 1, 1>>, <<0, 0, 0>>}}

\* main (lines 1114-1125): the scheduler is started, the rows are read
Init ==
    /\ now = StartInstant
    /\ phase = "starting"
    /\ store \in InitStores
    /\ jobs = {}
    /\ sessions = [c \in Chats |-> NoSession]
    /\ tasks = SetToBag({[Task("main", "rehydrate") EXCEPT !.rows = store]})
    /\ fired = {}
    /\ ops = 0

\* main, lines 1127-1130: the next row is armed; after the last one the
\* dispatcher starts polling
Rehydrate(t) ==
    /\ t.h = "main" /\ t.pc = "rehydrate"
    /\ IF t.rows = <<>>
       THEN /\ Finish(t)
            /\ phase' = "polling"
       ELSE /\ Become(t, [t EXCEPT !.pc = "arm_select", !.rows = Tail(t.rows),
                                   !.name = Head(t.rows).name, !.bd = Head(t.rows).bd,
                                   !.chat = Head(t.rows).chat, !.rt = Head(t.rows).rt,
                                   !.un = Head(t.rows).un])
            /\ phase' = phase
    /\ UNCHANGED <<now, store, jobs, sessions, fired, ops>>

----------------------------------------------------------------------------
(* schedule_reminders, one action per stretch between two awaits *)

\* no age: a message that states none
NoAge == -1

\* a message the bot has sent, or the run of an annual job: the congratulation
\* (send_congrats_message) is generated when it is sent
Fired(t) ==
    [chat |-> t.chat, name |-> t.name, kind |-> t.kind, at |-> now, un |-> t.un,
     age |-> IF t.kind = "day_congrats" THEN generate_congrats(t.bd, now).age ELSE NoAge,
     category |-> IF t.kind = "day_congrats"
                  THEN generate_congrats(t.bd, now).category ELSE "-"]

\* a faulty variant of ArmSelect: the arm goes on, with the column defaults,
\* when the SELECT finds no row
ArmSelectAnyway(t) ==
    LET X == ByChat(store, t.name, t.chat)
    IN  /\ t.pc = "arm_select"
        /\ Become(t, [t EXCEPT !.r = IF X = {} THEN DefaultFlags ELSE First(store, X).r,
                               !.pc = "arm_add"])
        /\ fired' = IF t.h = "job" THEN fired \cup {Fired(t)} ELSE fired
        /\ UNCHANGED <<now, phase, store, jobs, sessions, ops>>

\* lines 1009-1018: SELECT remind_3_days, remind_1_day, remind_day
ArmSelect(t) ==
    LET X == ByChat(store, t.name, t.chat)
    IN  /\ t.pc = "arm_select"
        /\ IF X = {} THEN Return(t, t)
           ELSE Become(t, [t EXCEPT !.r = First(store, X).r, !.pc = "arm_add"])
        /\ fired' = IF t.h = "job" THEN fired \cup {Fired(t)} ELSE fired
        /\ UNCHANGED <<now, phase, store, jobs, sessions, ops>>

\* lines 1019-1057 (and 1076-1086 when remind_day is off)
ArmAdd(t) ==
    LET nbr == get_next_birthday(t.bd, t.rt, now)
        nb  == nbr.dt
        a   == AddAll(jobs, ArmFirst(t.chat, t.name, nb, t.r, t.un))
        b   == ArmAnnual(a.jobs, t.chat, t.name, nb, t.un, t.bd, t.rt)
    IN  /\ t.pc = "arm_add"
        /\ IF ~nbr.ok
           THEN /\ jobs' = jobs
                /\ Become(t, [t EXCEPT !.pc = "raised"])
           ELSE IF ~a.ok
           THEN /\ jobs' = a.jobs
                /\ Become(t, [t EXCEPT !.pc = "raised", !.nb = nb])
           ELSE IF t.r[3] # 0
           THEN /\ jobs' = a.jobs
                /\ Become(t, [t EXCEPT !.pc = "arm_desc", !.nb = nb])
           ELSE /\ jobs' = b.jobs
                /\ IF b.ok THEN Return(t, [t EXCEPT !.nb = nb])
                   ELSE Become(t, [t EXCEPT !.pc = "raised", !.nb = nb])
        /\ UNCHANGED <<now, phase, store, sessions, fired, ops>>

\* lines 1058-1086: after SELECT description
ArmDesc(t) ==
    LET a == add_job(jobs, JobCongrats(t.chat, t.name, t.nb, t.bd))
        b == ArmAnnual(a.jobs, t.chat, t.name, t.nb, t.un, t.bd, t.rt)
    IN  /\ t.pc = "arm_desc"
        /\ IF ~a.ok
           THEN /\ jobs' = a.jobs
                /\ Become(t, [t EXCEPT !.pc = "raised"])
           ELSE /\ jobs' = b.jobs
                /\ IF b.ok THEN Return(t, t) ELSE Become(t, [t EXCEPT !.pc = "raised"])
        /\ UNCHANGED <<now, phase, store, sessions, fired, ops>>

\* a faulty variant of Raised: any exception ends the process
RaisedStops(t) ==
    /\ t.pc = "raised"
    /\ phase' = "crashed"
    /\ tasks' = EmptyBag
    /\ jobs' = {}
    /\ UNCHANGED <<now, store, sessions, fired, ops>>
\* an exception leaves a handler (aiogram logs it, the session is not
\* cleared) or a job (APScheduler logs it): the task ends.  One that leaves
\* main ends the process
Raised(t) ==
    /\ t.pc = "raised"
    /\ IF t.h = "main"
       THEN /\ phase' = "crashed"
            /\ tasks' = EmptyBag
            /\ jobs' = {}
       ELSE /\ phase' = phase
            /\ Finish(t)
            /\ jobs' = jobs
    /\ UNCHANGED <<now, store, sessions, fired, ops>>

----------------------------------------------------------------------------
(* Sessions: the forms up to their last step.  The steps before it read    *)
(* and write the session alone; they are one action here.                  *)

\* the dispatcher polls and the owner writes
Acting == phase = "polling" /\ now \in ActInstants

\* /add, then name, date, description, username and time (lines 227-419):
\* process_date rejects a birthdate after now
OpenAdd(c) ==
    /\ Acting
    /\ ops < MaxOps
    /\ sessions[c].form = "none"
    /\ \E n \in Names, bd \in Birthdates, rt \in AddTimes, un \in AddUsernames :
         /\ StrptimeOK(bd)
         /\ ~(ToUTC(DT(bd[3], bd[2], bd[1], 0, 0, 0)) > now)
         /\ sessions' = [sessions EXCEPT ![c] =
                [form |-> "confirm_add", param |-> "-", name |-> n,
                 bd |-> bd, rt |-> rt, un |-> un]]
    /\ ops' = ops + 1
    /\ UNCHANGED <<now, phase, store, jobs, tasks, fired>>

\* /settings, process_settings_name and process_settings_parameter
\* (lines 540-689): the row is read by name and user_id
OpenSettings(c) ==
    /\ Acting
    /\ ops < MaxOps
    /\ sessions[c].form = "none"
    /\ \E u \in Users, n \in Names, p \in {"time", "reminders", "username"} :
         /\ ByUser(store, n, u) # {}
         /\ LET row == First(store, ByUser(store, n, u))
            IN  sessions' = [sessions EXCEPT ![c] =
                    [form |-> "settings_value", param |-> p, name |-> n,
                     bd |-> row.bd, rt |-> row.rt, un |-> row.un]]
    /\ ops' = ops + 1
    /\ UNCHANGED <<now, phase, store, jobs, tasks, fired>>

\* /delete and process_delete_name (lines 878-935)
OpenDelete(c) ==
    /\ Acting
    /\ ops < MaxOps
    /\ sessions[c].form = "none"
    /\ \E u \in Users, n \in Names :
         /\ ByUser(store, n, u) # {}
         /\ sessions' = [sessions EXCEPT ![c] =
                [form |-> "confirm_delete", param |-> "-", name |-> n,
                 bd |-> First(store, ByUser(store, n, u)).bd, rt |-> NoRt, un |-> NoUn]]
    /\ ops' = ops + 1
    /\ UNCHANGED <<now, phase, store, jobs, tasks, fired>>

\* the cancel answer of a form: state.clear() and nothing else
Cancel(c) ==
    /\ Acting
    /\ sessions[c].form # "none"
    /\ sessions' = [sessions EXCEPT ![c] = NoSession]
    /\ UNCHANGED <<now, phase, store, jobs, tasks, fired, ops>>

\* a handler task of chat c, started with the session's data
Handler(h, pc, c, u, rt, un, r) ==
    [Task(h, pc) EXCEPT !.chat = c, !.user = u,
                           !.name = sessions[c].name, !.bd = sessions[c].bd,
                           !.rt = rt, !.un = un, !.r = r]

Inserting == {t \in Running : t.h = "confirm" /\ t.pc \in {"check", "insert"}}

\* process_confirm, answer "save"
SubmitConfirm(c) ==
    /\ Acting
    /\ sessions[c].form = "confirm_add"
    /\ Len(store) + InFlight(Inserting) < MaxRows
    /\ \E u \in Users :
         Spawn(Handler("confirm", "check", c, u, sessions[c].rt, sessions[c].un, NoFlags))
    /\ UNCHANGED <<now, phase, store, jobs, sessions, fired, ops>>

\* process_settings_value, parameter time, a valid HH:MM
SubmitTime(c) ==
    /\ Acting
    /\ sessions[c].form = "settings_value" /\ sessions[c].param = "time"
    /\ \E u \in Users, rt \in EditTimes :
         Spawn(Handler("time", "update", c, u, rt, sessions[c].un, NoFlags))
    /\ UNCHANGED <<now, phase, store, jobs, sessions, fired, ops>>

\* process_settings_value, parameter reminders: enable all, disable all or Save
SubmitFlags(c) ==
    /\ Acting
    /\ sessions[c].form = "settings_value" /\ sessions[c].param = "reminders"
    /\ \E u \in Users, r \in FlagChoices :
         Spawn(Handler("flags", "update", c, u, NoRt, NoUn, r))
    /\ UNCHANGED <<now, phase, store, jobs, sessions, fired, ops>>

\* process_settings_value, parameter username: a handle, or "удалить"
SubmitUsername(c) ==
    /\ Acting
    /\ sessions[c].form = "settings_value" /\ sessions[c].param = "username"
    /\ \E u \in Users, un \in EditUsernames :
         Spawn(Handler("username", "update", c, u, NoRt, un, NoFlags))
    /\ UNCHANGED <<now, phase, store, jobs, sessions, fired, ops>>

\* process_confirm_delete, answer "yes"
SubmitDelete(c) ==
    /\ Acting
    /\ sessions[c].form = "confirm_delete"
    /\ \E u \in Users :
         Spawn(Handler("delete", "delete", c, u, NoRt, NoUn, NoFlags))
    /\ UNCHANGED <<now, phase, store, jobs, sessions, fired, ops>>

----------------------------------------------------------------------------
(* The handlers, one action per stretch between two awaits *)

\* process_confirm, lines 428-442: SELECT id WHERE name = ? AND chat_id = ?
ConfirmCheck(t) ==
    /\ t.h = "confirm" /\ t.pc = "check"
    /\ Become(t, [t EXCEPT !.pc =
            IF ByChat(store, t.name, t.chat) # {} THEN "clear" ELSE "insert"])
    /\ UNCHANGED <<now, phase, store, jobs, sessions, fired, ops>>

\* process_confirm, lines 444-451: INSERT and commit
ConfirmInsert(t) ==
    /\ t.h = "confirm" /\ t.pc = "insert"
    /\ store' = Append(store, Row(t.user, t.chat, t.name, t.bd, t.un, t.rt, DefaultFlags))
    /\ Become(t, [t EXCEPT !.pc = "arm_select"])
    /\ UNCHANGED <<now, phase, jobs, sessions, fired, ops>>

\* process_settings_value, lines 721-726: UPDATE reminder_time and commit
TimeUpdate(t) ==
    /\ t.h = "time" /\ t.pc = "update"
    /\ store' = UpdateTime(store, t.name, t.user, t.rt)
    /\ Become(t, [t EXCEPT !.pc = "remove"])
    /\ UNCHANGED <<now, phase, jobs, sessions, fired, ops>>

\* process_settings_value, line 729, up to the first await of schedule_reminders
TimeRemove(t) ==
    /\ t.h = "time" /\ t.pc = "remove"
    /\ jobs' = remove_scheduled_reminders(jobs, t.chat, t.name)
    /\ Become(t, [t EXCEPT !.pc = "arm_select"])
    /\ UNCHANGED <<now, phase, store, sessions, fired, ops>>

\* process_settings_value, lines 815-822: UPDATE the three flags and commit
FlagsUpdate(t) ==
    /\ t.h = "flags" /\ t.pc = "update"
    /\ store' = UpdateFlags(store, t.name, t.user, t.r)
    /\ Become(t, [t EXCEPT !.pc = "remove"])
    /\ UNCHANGED <<now, phase, jobs, sessions, fired, ops>>

\* lines 825-831: the jobs of the flags that are off
FlagsCancel(J, c, n, r) ==
    LET a == IF r[1] = 0 THEN remove_specific_reminder(J, c, n, "3d") ELSE J
        b == IF r[2] = 0 THEN remove_specific_reminder(a, c, n, "1d") ELSE a
    IN  IF r[3] = 0
        THEN remove_specific_reminder(
                 remove_specific_reminder(b, c, n, "day_notification"),
                 c, n, "day_congrats")
        ELSE b

FlagsRemove(t) ==
    /\ t.h = "flags" /\ t.pc = "remove"
    /\ jobs' = FlagsCancel(jobs, t.chat, t.name, t.r)
    /\ Become(t, [t EXCEPT !.pc = "clear"])
    /\ UNCHANGED <<now, phase, store, sessions, fired, ops>>

\* process_settings_value, lines 852-857: UPDATE telegram_username and commit
UsernameUpdate(t) ==
    /\ t.h = "username" /\ t.pc = "update"
    /\ store' = UpdateUsername(store, t.name, t.user, t.un)
    /\ Become(t, [t EXCEPT !.pc = "clear"])
    /\ UNCHANGED <<now, phase, jobs, sessions, fired, ops>>

\* process_confirm_delete, lines 944-949: DELETE and commit
DeleteCommit(t) ==
    /\ t.h = "delete" /\ t.pc = "delete"
    /\ store' = DeleteRows(store, t.name, t.user)
    /\ Become(t, [t EXCEPT !.pc = "remove"])
    /\ UNCHANGED <<now, phase, jobs, sessions, fired, ops>>

\* process_confirm_delete, line 951
DeleteRemove(t) ==
    /\ t.h = "delete" /\ t.pc = "remove"
    /\ jobs' = remove_scheduled_reminders(jobs, t.chat, t.name)
    /\ Become(t, [t EXCEPT !.pc = "clear"])
    /\ UNCHANGED <<now, phase, store, sessions, fired, ops>>

\* the end of a handler: the answer and state.clear(); process_confirm
\* calls get_next_birthday once more before it (line 461)
Clear(t) ==
    /\ t.pc = "clear"
    /\ IF t.h = "confirm" /\ t.nb # NoDT /\ ~get_next_birthday(t.bd, t.rt, now).ok
       THEN /\ Become(t, [t EXCEPT !.pc = "raised"])
            /\ UNCHANGED sessions
       ELSE /\ Finish(t)
            /\ sessions' = [sessions EXCEPT ![t.chat] = NoSession]
    /\ UNCHANGED <<now, phase, store, jobs, fired, ops>>

----------------------------------------------------------------------------
(* The scheduler's firing and the clock *)

\* misfire_grace_time of a job (APScheduler's default), seconds
MisfireGrace == 1

Due == {j \in jobs : j.due <= now}

\* the coroutine of a job's action
JobTask(j) ==
    [Task("job", IF j.kind = "annual" THEN "arm_select" ELSE "run") EXCEPT
        !.kind = j.kind, !.chat = j.chat, !.name = j.name,
        !.un = j.un, !.bd = j.bd, !.rt = j.rt]

\* _process_jobs: every due job leaves the job store (a date trigger has no
\* next run time); its coroutine becomes a task of the event loop, unless
\* its run time is missed by more than the grace time
ProcessJobs ==
    /\ phase # "crashed"
    /\ Due # {}
    /\ jobs' = jobs \ Due
    /\ tasks' = tasks (+) SetToBag({JobTask(j) : j \in {d \in Due : now - d.due <= MisfireGrace}})
    /\ UNCHANGED <<now, phase, store, sessions, fired, ops>>

\* send_reminder, send_birthday_notification, send_congrats_message
JobRun(t) ==
    /\ t.h = "job" /\ t.pc = "run"
    /\ fired' = fired \cup {Fired(t)}
    /\ Finish(t)
    /\ UNCHANGED <<now, phase, store, jobs, sessions, ops>>

Horizon == ToUTC(DT(LastYear, 12, 31, 23, 59, 59))

\* time passes while no task runs, up to the next instant at which the owner
\* acts or a job is due (the scheduler's timer wakes it at every due-instant)
Tick ==
    LET T == {t \in ActInstants \cup {j.due : j \in jobs} : t > now /\ t <= Horizon}
    IN  /\ phase = "polling"
        /\ Due = {}
        /\ tasks = EmptyBag
        /\ T # {}
        /\ now' = Min(T)
        /\ UNCHANGED <<phase, store, jobs, sessions, tasks, fired, ops>>

Next ==
    \/ \E c \in Chats : OpenAdd(c)
    \/ \E c \in Chats : OpenSettings(c)
    \/ \E c \in Chats : OpenDelete(c)
    \/ \E c \in Chats : Cancel(c)
    \/ \E c \in Chats : SubmitConfirm(c)
    \/ \E c \in Chats : SubmitTime(c)
    \/ \E c \in Chats : SubmitFlags(c)
    \/ \E c \in Chats : SubmitUsername(c)
    \/ \E c \in Chats : SubmitDelete(c)
    \/ \E t \in Running : Rehydrate(t)
    \/ \E t \in Running : ConfirmCheck(t)
    \/ \E t \in Running : ConfirmInsert(t)
    \/ \E t \in Running : TimeUpdate(t)
    \/ \E t \in Running : TimeRemove(t)
    \/ \E t \in Running : FlagsUpdate(t)
    \/ \E t \in Running : FlagsRemove(t)
    \/ \E t \in Running : UsernameUpdate(t)
    \/ \E t \in Running : DeleteCommit(t)
    \/ \E t \in Running : DeleteRemove(t)
    \/ \E t \in Running : ArmSelect(t)
    \/ \E t \in Running : ArmAdd(t)
    \/ \E t \in Running : ArmDesc(t)
    \/ \E t \in Running : Clear(t)
    \/ \E t \in Running : Raised(t)
    \/ \E t \in Running : JobRun(t)
    \/ ProcessJobs
    \/ Tick

Spec == Init /\ [][Next]_vars

----------------------------------------------------------------------------
(* schedule_reminders alone, over a wider range of rows and instants: main *)
(* arms one stored row and nothing else runs                               *)

ArmBirthdates == {<<15, 5, 1990>>, <<1, 1, 2000>>, <<31, 12, 1985>>, <<29, 2, 2000>>}
ArmTimes == {<<9, 0>>, <<0, 0>>, <<23, 59>>}
ArmFlags == {<<a, b, c>> : a \in {0, 1}, b \in {0, 1}, c \in {0, 1}}
ArmInstants ==
    {StartInstant, ToUTC(DT(2024, 5, 15, 9, 0, 0)),
     ToUTC(DT(2024, 12, 31, 23, 30, 0)), ToUTC(DT(2024, 1, 1, 0, 0, 0))}

InitArm ==
    /\ now \in ArmInstants
    /\ phase = "starting"
    /\ store \in {<<Row(1, 1, "Anna", bd, None, rt, r)>> :
                    bd \in ArmBirthdates, rt \in ArmTimes, r \in ArmFlags}
    /\ jobs = {}
    /\ sessions = [c \in Chats |-> NoSession]
    /\ tasks = SetToBag({[Task("main", "rehydrate") EXCEPT !.rows = store]})
    /\ fired = {}
    /\ ops = 0

NextArm ==
    \/ \E t \in Running : Rehydrate(t)
    \/ \E t \in Running : ArmSelect(t)
    \/ \E t \in Running : ArmAdd(t)
    \/ \E t \in Running : ArmDesc(t)
    \/ \E t \in Running : Raised(t)

SpecArm == InitArm /\ [][NextArm]_vars

----------------------------------------------------------------------------
(* Properties *)

\* the pending jobs of destination c and name n
JobsOf(J, c, n) == {j \in J : j.chat = c /\ j.name = n}

\* the task t ends this step with an exception
Fails(t) ==
    \E t2 \in BagToSet(tasks') :
        /\ t2.pc = "raised"
        /\ t2.h = t.h /\ t2.chat = t.chat /\ t2.name = t.name
        /\ CopiesIn(t2, tasks') > CopiesIn(t2, tasks)

\* the occurrence of a row's birthday in the year y, at its reminder time
Occurrence(row, y) == ToUTC(DT(y, row.bd[2], row.bd[1], row.rt[1], row.rt[2], 0))

\* C1: no birthday is missed by the recurrence chain.  With no user operation
\* at all (the row stays as it is, the process keeps running), once the
\* occurrence of a year has passed and no task runs any more, the
\* day-notification of a row whose remind_day flag is on has fired at that
\* occurrence, for every year up to the horizon
C1_NoOccurrenceMissed ==
    (ops = 0 /\ phase = "polling" /\ tasks = EmptyBag) =>
        \A i \in 1..Len(store) : \A y \in 2024..LastYear :
            (/\ store[i].r[3] # 0
             /\ Occurrence(store[i], y) >= StartInstant
             /\ Occurrence(store[i], y) + CongratsDelay < now)
            => \E f \in fired :
                 /\ f.chat = store[i].chat /\ f.name = store[i].name
                 /\ f.kind = "day_notification"
                 /\ f.at = Occurrence(store[i], y)

\* the kinds of the pending jobs of a row that are due after now
PendingKinds(J, row) == {j.kind : j \in {x \in JobsOf(J, row.chat, row.name) : x.due > now}}

\* the kinds a row's flags call for, of those whose due-instant is after now
FutureKinds(row) ==
    LET nbr == get_next_birthday(row.bd, row.rt, now)
        due == [k \in Kinds |->
                  CASE k = "3d" -> Due3d(nbr.dt)
                    [] k = "1d" -> Due1d(nbr.dt)
                    [] k = "day_notification" -> DueDay(nbr.dt)
                    [] k = "day_congrats" -> DueCongrats(nbr.dt)
                    [] OTHER -> DueAnnual(nbr.dt)]
    IN  {k \in KindsFor(row.r) : due[k] > now}

\* C2: when a flags edit has been saved and its handler ends (no other task
\* in flight), the pending jobs of the edited subscription that are due in
\* the future are exactly the kinds its new flags call for
C2_FlagsEditRearms ==
    [][\A t \in Running :
         (t.h = "flags" /\ Clear(t) /\ tasks = SetToBag({t})) =>
             \A i \in ByUser(store', t.name, t.user) :
                 PendingKinds(jobs', store'[i]) = FutureKinds(store'[i])]_vars

\* C3: scheduling under an identifier replaces: when an arm calls add_job,
\* the call does not fail, and after it the job of every identifier it
\* scheduled is the job of this call, one per identifier
C3_ScheduleReplaces ==
    [][\A t \in Running :
         LET nb == get_next_birthday(t.bd, t.rt, now).dt
             F  == ArmFirst(t.chat, t.name, nb, t.r, t.un)
         IN  /\ ArmAdd(t) =>
                  /\ ~Fails(t)
                  /\ \A i \in 1..Len(F) :
                       JobsOf(jobs', t.chat, t.name) \cap {j \in jobs' : j.kind = F[i].kind}
                           = {F[i]}
             /\ ArmDesc(t) =>
                  /\ ~Fails(t)
                  /\ JobCongrats(t.chat, t.name, t.nb, t.bd) \in jobs'
                  /\ JobAnnual(t.chat, t.name, t.nb, t.un, t.bd, t.rt) \in jobs']_vars

\* C4: a job of a deleted subscription never fires: a reminder, notification
\* or congratulation runs only while a row of its (destination, name) is
\* stored, and when a delete handler ends no such job is pending for a
\* (destination, name) without a row
C4_DeletedNeverFires ==
    [][\A t \in Running :
         /\ JobRun(t) => ByChat(store, t.name, t.chat) # {}
         /\ (t.h = "delete" /\ Clear(t)) =>
                \A j \in jobs' :
                    j.kind # "annual" => ByChat(store', j.name, j.chat) # {}]_vars

\* C5: in the delete operation there is no state in which the row is deleted
\* and committed while the removal of its jobs has not been attempted yet
C5_DisarmBeforeCommit ==
    ~\E t \in Running :
        /\ t.h = "delete" /\ t.pc = "remove"
        /\ ByUser(store, t.name, t.user) = {}

\* C6: the store never holds two rows with the same (owner, name)
C6_UniqueOwnerName ==
    \A i, j \in 1..Len(store) :
        (store[i].user = store[j].user /\ store[i].name = store[j].name) => i = j

\* the kinds an arm step of the task t is about to register
Creating(t) ==
    IF t.pc = "arm_add"
    THEN {k \in KindsFor(t.r) : k # "day_congrats" /\ (k = "annual" => t.r[3] = 0)}
    ELSE {"day_congrats", "annual"}

\* C7: at most one pending job per (destination, name, kind), and an
\* operation that creates a job for a key has removed any job of that key
\* first: the creating step finds none pending
C7_CreateRemovesFirst ==
    [][\A t \in Running :
         (ArmAdd(t) \/ ArmDesc(t)) =>
             /\ \A k \in Creating(t) : ~HasJob(jobs, t.chat, t.name, k)
             /\ \A j1, j2 \in jobs' :
                  (j1.chat = j2.chat /\ j1.name = j2.name /\ j1.kind = j2.kind)
                      => j1 = j2]_vars

\* the kinds of the jobs a step of the task t registers
Registered(t) == {j.kind : j \in JobsOf(jobs' \ jobs, t.chat, t.name)}

\* C8: an arm registers exactly the kinds the flags it read call for: the
\* 3-day, 1-day and day-notification jobs up to the description query, the
\* day-congratulation after it, the annual job last
C8_ArmRegistersFlagKinds ==
    [][\A t \in Running :
         /\ ArmAdd(t) => Registered(t) =
                (KindsFor(t.r) \ (IF t.r[3] # 0 THEN {"day_congrats", "annual"} ELSE {}))
         /\ ArmDesc(t) => Registered(t) = {"day_congrats", "annual"}]_vars

\* the row and the instant of the worked example: 15.05.1990, 09:00, armed
\* on 2024-05-10
ExampleRow == Row(1, 1, "Anna", <<15, 5, 1990>>, None, <<9, 0>>, <<1, 1, 1>>)
ExampleDues ==
    [k \in Kinds |->
       CASE k = "3d" -> ToUTC(DT(2024, 5, 12, 9, 0, 0))
         [] k = "1d" -> ToUTC(DT(2024, 5, 14, 9, 0, 0))
         [] k = "day_notification" -> ToUTC(DT(2024, 5, 15, 9, 0, 0))
         [] k = "day_congrats" -> ToUTC(DT(2024, 5, 15, 9, 0, 2))
         [] OTHER -> ToUTC(DT(2025, 5, 16, 9, 0, 0))]

\* C9: every job an arm registers is due at the instant of its kind, counted
\* from nextBirthday = get_next_birthday(birthdate, reminder time, now):
\* 3 days before, 1 day before, at it, 2 seconds after it, and one day after
\* its date in the following year; and the row of the example, armed on
\* 2024-05-10, has its five jobs at the instants of the example
C9_DueInstants ==
    /\ [](\A j \in jobs :
            (store = <<ExampleRow>> /\ now = StartInstant) => j.due = ExampleDues[j.kind])
    /\ [][\A t \in Running :
            LET nb == get_next_birthday(t.bd, t.rt, now).dt
            IN  (ArmAdd(t) \/ ArmDesc(t)) =>
                  \A j \in jobs' \ jobs :
                    /\ j.chat = t.chat /\ j.name = t.name
                    /\ j.kind = "3d" => j.due = ToUTC(nb) - 3 * 86400
                    /\ j.kind = "1d" => j.due = ToUTC(nb) - 86400
                    /\ j.kind = "day_notification" => j.due = ToUTC(nb)
                    /\ j.kind = "day_congrats" => j.due = ToUTC(nb) + 2
                    /\ j.kind = "annual" =>
                         j.due = ToUTC([nb EXCEPT !.year = nb.year + 1]) + 86400]_vars

\* the example is armed in full: its five jobs are pending
C9_ExampleArmed ==
    /\ store = <<ExampleRow>> /\ now = StartInstant /\ phase = "polling"
    /\ {j.kind : j \in jobs} = Kinds
    /\ \A j \in jobs : j.due = ExampleDues[j.kind]

\* C10: a reminder-time edit re-arms without a gap: no step of its handler
\* (the store update, the removal of the old jobs, the registration of the
\* new ones) leads from a state in which jobs of the subscription are
\* registered to one in which its row is stored and none of its jobs is
C10_TimeEditNoGap ==
    [][\A t \in Running :
         (/\ t.h = "time"
          /\ TimeUpdate(t) \/ TimeRemove(t) \/ ArmSelect(t) \/ ArmAdd(t) \/ ArmDesc(t)
          /\ JobsOf(jobs, t.chat, t.name) # {}
          /\ ByChat(store', t.name, t.chat) # {})
         => JobsOf(jobs', t.chat, t.name) # {}]_vars

\* the jobs an arm at the instant now derives from a stored row
ArmJobs(row) ==
    LET nbr == get_next_birthday(row.bd, row.rt, now)
        nb  == nbr.dt
    IN  IF ~nbr.ok THEN {}
        ELSE (IF row.r[1] # 0 THEN {Job3d(row.chat, row.name, nb)} ELSE {})
             \cup (IF row.r[2] # 0 THEN {Job1d(row.chat, row.name, nb)} ELSE {})
             \cup (IF row.r[3] # 0
                   THEN {JobDay(row.chat, row.name, nb, row.un),
                         JobCongrats(row.chat, row.name, nb, row.bd)}
                   ELSE {})
             \cup (IF NextYearOK(nb)
                   THEN {JobAnnual(row.chat, row.name, nb, row.un, row.bd, row.rt)}
                   ELSE {})

\* the jobs of the set J that are due after now
Future(J) == {j \in J : j.due > now}

\* C11: when the handler of a reminder-time edit ends (no other task in
\* flight), the pending future jobs of the edited subscription, at the
\* destination chat stored in its row, are exactly those an arm derives from
\* the stored row with the new time, whichever chat the edit came from
C11_TimeEditRearms ==
    [][\A t \in Running :
         (t.h = "time" /\ Clear(t) /\ tasks = SetToBag({t})) =>
             \A i \in ByUser(store, t.name, t.user) :
                 Future(JobsOf(jobs', store[i].chat, store[i].name))
                     = Future(ArmJobs(store[i]))]_vars

\* C12: when the handler of a profile-handle edit ends (no other task in
\* flight), the pending day-notification and annual jobs of the edited
\* subscription carry the handle now stored in its row
C12_HandleEditReachesJobs ==
    [][\A t \in Running :
         (t.h = "username" /\ Clear(t) /\ tasks = SetToBag({t})) =>
             \A i \in ByUser(store, t.name, t.user) :
                 \A j \in JobsOf(jobs', store[i].chat, store[i].name) :
                     j.kind \in {"day_notification", "annual"} => j.un = store[i].un]_vars

\* C13: the jobs the annual job registers when it fires are those an arm
\* derives from the row as stored at that moment (its flags and its
\* reminder time)
C13_AnnualReadsStore ==
    [][\A t \in Running :
         (t.h = "job" /\ (ArmAdd(t) \/ ArmDesc(t))) =>
             \A j \in jobs' \ jobs :
                 \A i \in ByChat(store, t.name, t.chat) :
                     \E a \in ArmJobs(store[i]) : a.kind = j.kind /\ a.due = j.due]_vars

\* C14: the rehydration loop of main ends without error for every row, and
\* when it has ended the pending jobs are the union, over the stored rows,
\* of the jobs an arm derives from each row
C14_RehydrationComplete ==
    /\ phase # "crashed"
    /\ \A t \in Running : t.h = "main" => t.pc # "raised"
    /\ (phase = "polling" /\ ops = 0 /\ fired = {}) =>
           jobs = UNION {ArmJobs(store[i]) : i \in 1..Len(store)}

\* C15: each reminder fires at most once per occurrence of the birthday (for
\* the birthdates of the model a reminder of an occurrence fires in the
\* calendar year of that occurrence), and a job that has fired is no longer
\* pending
C15_AtMostOncePerOccurrence ==
    /\ [](\A f1, f2 \in fired :
            (/\ f1.kind # "annual"
             /\ f1.chat = f2.chat /\ f1.name = f2.name /\ f1.kind = f2.kind
             /\ MoscowYear(f1.at) = MoscowYear(f2.at))
            => f1.at = f2.at)
    /\ [][ProcessJobs => Due \cap jobs' = {}]_vars

----------------------------------------------------------------------------
(* The cancel functions alone: any set of pending jobs of two destinations, *)
(* and calls of remove_specific_reminder and remove_scheduled_reminders     *)

\* cancel calls in one run
MaxCancels == 2

\* the jobs the example row has at chat c
SchedJobs(c) == ArmJobs([ExampleRow EXCEPT !.chat = c])

InitSched ==
    /\ now = StartInstant
    /\ phase = "polling"
    /\ store = <<>>
    /\ jobs \in SUBSET (SchedJobs(1) \cup SchedJobs(2))
    /\ sessions = [c \in Chats |-> NoSession]
    /\ tasks = EmptyBag
    /\ fired = {}
    /\ ops = 0

\* remove_specific_reminder(c, n, k); an exception leaving it ends the caller
CancelOne(c, n, k) ==
    /\ phase = "polling" /\ ops < MaxCancels
    /\ jobs' = remove_specific_reminder(jobs, c, n, k)
    /\ phase' = IF try_remove_job(jobs, c, n, k).raised THEN "crashed" ELSE phase
    /\ ops' = ops + 1
    /\ UNCHANGED <<now, store, sessions, tasks, fired>>

\* remove_scheduled_reminders(c, n)
Disarm(c, n) ==
    /\ phase = "polling" /\ ops < MaxCancels
    /\ jobs' = remove_scheduled_reminders(jobs, c, n)
    /\ phase' = IF \E k \in Kinds : try_remove_job(jobs, c, n, k).raised
                THEN "crashed" ELSE phase
    /\ ops' = ops + 1
    /\ UNCHANGED <<now, store, sessions, tasks, fired>>

NextSched ==
    \/ \E c \in Chats, n \in Names, k \in Kinds : CancelOne(c, n, k)
    \/ \E c \in Chats, n \in Names : Disarm(c, n)

SpecSched == InitSched /\ [][NextSched]_vars

\* C16: cancelling an identifier that is not pending does not raise and
\* leaves the set of pending jobs unchanged
C16_CancelMissingIsNoOp ==
    [][\A c \in Chats, n \in Names, k \in Kinds :
         (CancelOne(c, n, k) /\ ~HasJob(jobs, c, n, k)) =>
             (jobs' = jobs /\ phase' = "polling")]_vars

\* an identifier that was cancelled twice: the second call found it missing
C16_CancelledTwice ==
    /\ ops = 2 /\ phase = "polling"
    /\ jobs # {}
    /\ \E c \in Chats : Cardinality(JobsOf(jobs, c, "Anna")) = 4
    /\ \E c \in Chats : Cardinality(JobsOf(jobs, c, "Anna")) = 5

\* C17: a disarm leaves none of the five kinds pending for its key and every
\* job of another key as it was, does not fail, and a second disarm of the
\* key changes nothing
C17_DisarmIdempotent ==
    [][\A c \in Chats, n \in Names :
         Disarm(c, n) =>
             /\ \A k \in Kinds : ~HasJob(jobs', c, n, k)
             /\ jobs' = jobs \ JobsOf(jobs, c, n)
             /\ phase' = "polling"
             /\ remove_scheduled_reminders(jobs', c, n) = jobs']_vars

\* a key disarmed twice while the other destination keeps its five jobs
C17_DisarmedTwice ==
    /\ ops = 2 /\ phase = "polling"
    /\ JobsOf(jobs, 1, "Anna") = {}
    /\ Cardinality(JobsOf(jobs, 2, "Anna")) = 5

\* the flag of a row that the job kind k depends on
FlagOf(r, k) == IF k = "3d" THEN r[1] ELSE IF k = "1d" THEN r[2] ELSE r[3]

\* C18: turning a flag off cancels only the kinds of that flag, and once the
\* settings handler has returned a cancelled kind does not fire: the
\* scheduler starts no reminder, notification or congratulation whose flag
\* is off in the stored row of its (destination, name)
C18_FlagOffCancelsItsKinds ==
    [][/\ \A t \in Running :
            FlagsRemove(t) =>
                /\ jobs' \subseteq jobs
                /\ \A j \in jobs \ jobs' :
                     /\ j.chat = t.chat /\ j.name = t.name
                     /\ j.kind # "annual" /\ FlagOf(t.r, j.kind) = 0
       /\ (ProcessJobs /\ ~\E t \in Running : t.h = "flags") =>
            \A j \in Due :
                (j.kind # "annual" /\ now - j.due <= MisfireGrace) =>
                    \A i \in ByChat(store, j.name, j.chat) :
                        FlagOf(store[i].r, j.kind) # 0]_vars

----------------------------------------------------------------------------
(* Firing alone: one stored row, no user operation; a delivery may fail,   *)
(* and time may pass while a delivery is in flight                         *)

InitFire ==
    /\ now = StartInstant
    /\ phase = "starting"
    /\ store \in {<<[ExampleRow EXCEPT !.r = r]>> : r \in ArmFlags}
    /\ jobs = {}
    /\ sessions = [c \in Chats |-> NoSession]
    /\ tasks = SetToBag({[Task("main", "rehydrate") EXCEPT !.rows = store]})
    /\ fired = {}
    /\ ops = 0

\* await bot.send_message(...) raises (lines 988, 998, 1005)
JobFail(t) ==
    /\ t.h = "job" /\ t.pc = "run"
    /\ Become(t, [t EXCEPT !.pc = "raised"])
    /\ UNCHANGED <<now, phase, store, jobs, sessions, fired, ops>>

\* time passes while deliveries wait in bot.send_message, up to the next
\* due-instant
Wait ==
    LET T == {t \in {j.due : j \in jobs} : t > now /\ t <= Horizon}
    IN  /\ phase = "polling"
        /\ Due = {}
        /\ tasks # EmptyBag
        /\ \A t \in Running : t.h = "job" /\ t.pc = "run"
        /\ T # {}
        /\ now' = Min(T)
        /\ UNCHANGED <<phase, store, jobs, sessions, tasks, fired, ops>>

NextFire ==
    \/ \E t \in Running : Rehydrate(t)
    \/ \E t \in Running : ArmSelect(t)
    \/ \E t \in Running : ArmAdd(t)
    \/ \E t \in Running : ArmDesc(t)
    \/ \E t \in Running : Raised(t)
    \/ \E t \in Running : JobRun(t)
    \/ \E t \in Running : JobFail(t)
    \/ ProcessJobs
    \/ Tick
    \/ Wait

SpecFire == InitFire /\ [][NextFire]_vars

\* the due-instant of the annual job of the example row armed in 2024
FirstAnnual == ToUTC(DT(2025, 5, 16, 9, 0, 0))

\* C19: a failing delivery is isolated: the failure and the end of the
\* failed coroutine leave every pending job, every other task and the
\* scheduler as they are and register nothing anew (no retry); and the
\* annual job still fires and arms the next cycle from the stored row
C19_DeliveryFailureIsolated ==
    /\ []((tasks = EmptyBag /\ Due = {} /\ now = FirstAnnual) =>
            /\ \E f \in fired : f.kind = "annual" /\ f.at = FirstAnnual
            /\ jobs = ArmJobs(store[1]))
    /\ [][\A t \in Running :
            (t.h = "job" /\ t.kind # "annual" /\ (JobFail(t) \/ Raised(t))) =>
                /\ jobs' = jobs /\ phase' = phase /\ fired' = fired
                /\ \A x \in BagToSet(tasks) \cup BagToSet(tasks') :
                     (x # t /\ x.pc # "raised") =>
                         CopiesIn(x, tasks') = CopiesIn(x, tasks)
                /\ Raised(t) => tasks' = tasks (-) SetToBag({t})]_vars

\* the 3-day delivery failed (it is not among the deliveries), the 1-day one
\* was made, and the annual job has armed the next cycle
C19_FailedThenRearmed ==
    /\ tasks = EmptyBag /\ store[1].r = <<1, 1, 1>>
    /\ ~\E f \in fired : f.kind = "3d"
    /\ \E f \in fired : f.kind = "1d"
    /\ \E f \in fired : f.kind = "annual"
    /\ {j.kind : j \in jobs} = Kinds

\* C20: the congratulation is delivered after the notification: its job is
\* due later, and it is never sent while the notification of the same
\* (destination, name) is still waiting to be sent
C20_CongratsAfterNotification ==
    /\ [](\A j1, j2 \in jobs :
            (/\ j1.chat = j2.chat /\ j1.name = j2.name
             /\ j1.kind = "day_notification" /\ j2.kind = "day_congrats")
            => j2.due > j1.due)
    /\ [][\A t \in Running :
            (JobRun(t) /\ t.kind = "day_congrats") =>
                ~\E t2 \in Running :
                    /\ t2.h = "job" /\ t2.kind = "day_notification" /\ t2.pc = "run"
                    /\ t2.chat = t.chat /\ t2.name = t.name]_vars

\* C23: get_next_birthday never fails and returns the earliest instant on
\* the birthdate's day and month at the reminder time that is not before
\* now: this year's occurrence unless it is strictly before now, else next
\* year's.  Stated for every call an arm is about to make
C23_NextOccurrenceTotal ==
    \A t \in Running :
        t.pc = "arm_add" =>
            LET r    == get_next_birthday(t.bd, t.rt, now)
                y    == MoscowYear(now)
                this == DT(y, t.bd[2], t.bd[1], t.rt[1], t.rt[2], 0)
            IN  /\ r.ok
                /\ ToUTC(r.dt) >= now
                /\ r.dt.month = t.bd[2] /\ r.dt.day = t.bd[1]
                /\ r.dt.hour = t.rt[1] /\ r.dt.minute = t.rt[2] /\ r.dt.second = 0
                /\ ValidDate(r.dt.year, r.dt.month, r.dt.day)
                /\ r.dt.year = IF ToUTC(this) < now THEN y + 1 ELSE y

\* C27: arm is all-or-nothing: an invocation of schedule_reminders that
\* fails leaves the pending jobs of its (destination, name) as they were
\* when it began (none, where the scheduler was empty), never some of the
\* jobs registered with the annual one missing
C27_ArmAllOrNothing ==
    \A t \in Running :
        t.pc = "raised" =>
            \/ JobsOf(jobs, t.chat, t.name) = {}
            \/ \E j \in JobsOf(jobs, t.chat, t.name) : j.kind = "annual"

\* C28: an arm that finds no row of its (destination, name) in the store
\* registers no job and ends there, whoever called it; when it is the
\* annual job of a deleted subscription, no job of that (destination, name)
\* is pending afterwards: the recurrence chain has ended
C28_NoRowNoJobs ==
    [][\A t \in Running :
        (ArmSelect(t) /\ ByChat(store, t.name, t.chat) = {}) =>
            /\ jobs' = jobs
            /\ \A x \in BagToSet(tasks') :
                 CopiesIn(x, tasks') > CopiesIn(x, tasks) =>
                     x.pc \in {"clear", "rehydrate"}
            /\ t.h = "job" =>
                 /\ tasks' = tasks (-) SetToBag({t})
                 /\ JobsOf(jobs', t.chat, t.name) = {}]_vars

\* the annual job has fired for a row deleted before, and nothing is pending
C28_ChainEnded ==
    /\ store = <<>> /\ tasks = EmptyBag /\ jobs = {}
    /\ \E f \in fired : f.kind = "annual"

\* C29: while the process runs and no handler or job is executing, every
\* stored subscription has exactly one annual job pending for its
\* (destination, name)
C29_OneAnnualPending ==
    (phase = "polling" /\ tasks = EmptyBag) =>
        \A i \in 1..Len(store) :
            Cardinality({j \in JobsOf(jobs, store[i].chat, store[i].name) :
                            j.kind = "annual"}) = 1

----------------------------------------------------------------------------
(* The forms step by step: every message of the add form and of the       *)
(* settings form up to a changed reminder time, typed at a fixed instant   *)

\* messages (commands) that open a form in one run
MaxForms == 2

\* the instants at which the forms are filled in
FormInstants ==
    {StartInstant, ToUTC(DT(2024, 1, 1, 0, 0, 0)), ToUTC(DT(2024, 5, 10, 23, 59, 59))}

\* texts typed at the name step: F.text.len() > 1 lets the handler run
NameTexts == {"Anna", "A"}
\* a text the filter ^\d{2}\.\d{2}\.\d{4}$ does not match
MalformedDate == <<-1, -1, -1>>
\* texts typed at the date step
DateTexts ==
    {<<15, 5, 1990>>, <<29, 2, 2000>>, <<31, 2, 2000>>, <<10, 5, 2024>>,
     <<11, 5, 2024>>, <<1, 1, 2024>>, <<2, 1, 2024>>, MalformedDate}
\* a text the filter ^\d{1,2}:\d{2}$ does not match
MalformedTime == <<-1, -1>>
\* the cancel button of the settings form at the value step
CancelButton == <<-2, -2>>
\* texts typed at a time step
TimeTexts == {<<9, 0>>, <<24, 0>>, <<9, 60>>, MalformedTime}
\* the description step: the skip button, a text, a text over 200 characters
DescriptionTexts == {"skip", "text", "long"}
\* answers at the confirm step and in the menus
Answers == {"save", "cancel", "other"}

\* hour < 0 or hour > 23 or minute < 0 or minute > 59: raise ValueError
TimeInRange(rt) == ~(rt[1] < 0 \/ rt[1] > 23 \/ rt[2] < 0 \/ rt[2] > 59)

\* the dispatcher polls (no clock here: the instant is fixed by InitForm)
Polling == phase = "polling"

\* cmd_add: set_state(waiting_for_name); the session data is left as it is
cmd_add(c) ==
    /\ Polling
    /\ ops < MaxForms
    /\ sessions' = [sessions EXCEPT ![c].form = "waiting_for_name"]
    /\ ops' = ops + 1
    /\ UNCHANGED <<now, phase, store, jobs, tasks, fired>>

\* process_name: a text of one character matches no handler
process_name(c, text) ==
    /\ Polling
    /\ sessions[c].form = "waiting_for_name"
    /\ sessions' = IF Len(text) > 1
                   THEN [sessions EXCEPT ![c].name = text, ![c].form = "waiting_for_date"]
                   ELSE sessions
    /\ UNCHANGED <<now, phase, store, jobs, tasks, fired, ops>>

\* a faulty variant of process_date: it compares instants with >=, and so
\* rejects the date of today at midnight
process_date_strict(c, d) ==
    /\ Polling
    /\ sessions[c].form = "waiting_for_date"
    /\ sessions' =
         IF d = MalformedDate \/ ~StrptimeOK(d) THEN sessions
         ELSE IF ToUTC(DT(d[3], d[2], d[1], 0, 0, 0)) >= now THEN sessions
         ELSE [sessions EXCEPT ![c].bd = d, ![c].form = "waiting_for_description"]
    /\ UNCHANGED <<now, phase, store, jobs, tasks, fired, ops>>

\* process_date: the filter, strptime (ValueError is answered), and the
\* check birth_date > today, birth_date being the midnight of the date
process_date(c, d) ==
    /\ Polling
    /\ sessions[c].form = "waiting_for_date"
    /\ sessions' =
         IF d = MalformedDate \/ ~StrptimeOK(d) THEN sessions
         ELSE IF ToUTC(DT(d[3], d[2], d[1], 0, 0, 0)) > now THEN sessions
         ELSE [sessions EXCEPT ![c].bd = d, ![c].form = "waiting_for_description"]
    /\ UNCHANGED <<now, phase, store, jobs, tasks, fired, ops>>

\* process_description: a description over 200 characters is asked again
process_description(c, x) ==
    /\ Polling
    /\ sessions[c].form = "waiting_for_description"
    /\ sessions' = IF x = "long" THEN sessions
                   ELSE [sessions EXCEPT ![c].form = "waiting_for_username"]
    /\ UNCHANGED <<now, phase, store, jobs, tasks, fired, ops>>

\* process_username: the skip button gives None
process_username(c, un) ==
    /\ Polling
    /\ sessions[c].form = "waiting_for_username"
    /\ sessions' = [sessions EXCEPT ![c].un = un, ![c].form = "waiting_for_time"]
    /\ UNCHANGED <<now, phase, store, jobs, tasks, fired, ops>>

\* process_time: the filter, the range check, update_data(reminder_time),
\* then get_next_birthday outside the try: its ValueError leaves the handler
\* before set_state(confirm_add)
process_time(c, rt) ==
    /\ Polling
    /\ sessions[c].form = "waiting_for_time"
    /\ sessions' =
         IF rt = MalformedTime \/ ~TimeInRange(rt) THEN sessions
         ELSE IF ~get_next_birthday(sessions[c].bd, rt, now).ok
              THEN [sessions EXCEPT ![c].rt = rt]
              ELSE [sessions EXCEPT ![c].rt = rt, ![c].form = "confirm_add"]
    /\ UNCHANGED <<now, phase, store, jobs, tasks, fired, ops>>

\* a faulty variant of process_confirm: every answer but cancel saves
process_confirm_eager(c, a) ==
    /\ Polling
    /\ sessions[c].form = "confirm_add"
    /\ IF a # "cancel"
       THEN /\ Len(store) + InFlight(Inserting) < MaxRows
            /\ \E u \in Users :
                 Spawn(Handler("confirm", "check", c, u, sessions[c].rt,
                               sessions[c].un, NoFlags))
            /\ UNCHANGED sessions
       ELSE /\ sessions' = [sessions EXCEPT ![c] = NoSession]
            /\ UNCHANGED tasks
    /\ UNCHANGED <<now, phase, store, jobs, fired, ops>>

\* process_confirm by the answer: save starts the handler's work (lines
\* 428-470), cancel clears the state, any other text is asked again
process_confirm(c, a) ==
    /\ Polling
    /\ sessions[c].form = "confirm_add"
    /\ IF a = "save"
       THEN /\ Len(store) + InFlight(Inserting) < MaxRows
            /\ \E u \in Users :
                 Spawn(Handler("confirm", "check", c, u, sessions[c].rt,
                               sessions[c].un, NoFlags))
            /\ UNCHANGED sessions
       ELSE IF a = "cancel"
       THEN /\ sessions' = [sessions EXCEPT ![c] = NoSession]
            /\ UNCHANGED tasks
       ELSE UNCHANGED <<sessions, tasks>>
    /\ UNCHANGED <<now, phase, store, jobs, fired, ops>>

\* cmd_settings: without rows of the user nothing is set.  In the steps of
\* the add form that take any text, the handlers registered before it take
\* the command as their input
cmd_settings(c) ==
    /\ Polling
    /\ ops < MaxForms
    /\ sessions[c].form \notin {"waiting_for_name", "waiting_for_description",
                                "waiting_for_username", "confirm_add"}
    /\ sessions' = IF \E u \in Users, i \in 1..Len(store) : store[i].user = u
                   THEN [sessions EXCEPT ![c].form = "waiting_for_name_to_set"]
                   ELSE sessions
    /\ ops' = ops + 1
    /\ UNCHANGED <<now, phase, store, jobs, tasks, fired>>

\* process_settings_name: cancel and an unknown name clear the state; a known
\* name stores the row's data in the session
process_settings_name(c, text) ==
    /\ Polling
    /\ sessions[c].form = "waiting_for_name_to_set"
    /\ \E u \in Users :
         sessions' =
           IF text = "cancel" \/ ByUser(store, text, u) = {}
           THEN [sessions EXCEPT ![c] = NoSession]
           ELSE LET row == First(store, ByUser(store, text, u))
                IN  [sessions EXCEPT ![c] =
                        [form |-> "waiting_for_parameter", param |-> sessions[c].param,
                         name |-> text, bd |-> row.bd, rt |-> sessions[c].rt,
                         un |-> sessions[c].un]]
    /\ UNCHANGED <<now, phase, store, jobs, tasks, fired, ops>>

\* process_settings_parameter: cancel, one of the three buttons (time,
\* reminders, username), or a text that is no button
process_settings_parameter(c, a) ==
    /\ Polling
    /\ sessions[c].form = "waiting_for_parameter"
    /\ sessions' =
         IF a = "cancel" THEN [sessions EXCEPT ![c] = NoSession]
         ELSE IF a \in {"time", "reminders", "username"}
         THEN [sessions EXCEPT ![c].form = "settings_value", ![c].param = a]
         ELSE sessions
    /\ UNCHANGED <<now, phase, store, jobs, tasks, fired, ops>>

\* process_settings_value, parameter time, lines 691-719: cancel, the format
\* and range checks; a valid time starts the update (lines 721-742)
process_settings_value(c, rt) ==
    /\ Polling
    /\ sessions[c].form = "settings_value" /\ sessions[c].param = "time"
    /\ IF rt = CancelButton
       THEN /\ sessions' = [sessions EXCEPT ![c] = NoSession]
            /\ UNCHANGED tasks
       ELSE IF rt = MalformedTime \/ ~TimeInRange(rt)
       THEN UNCHANGED <<sessions, tasks>>
       ELSE /\ \E u \in Users :
                 Spawn(Handler("time", "update", c, u, rt, sessions[c].un, NoFlags))
            /\ UNCHANGED sessions
    /\ UNCHANGED <<now, phase, store, jobs, fired, ops>>

\* the table and the scheduler when the forms are filled in
InitForm ==
    /\ now \in FormInstants
    /\ phase = "starting"
    /\ store \in {<<>>, <<ExampleRow>>}
    /\ jobs = {}
    /\ sessions = [c \in Chats |-> NoSession]
    /\ tasks = SetToBag({[Task("main", "rehydrate") EXCEPT !.rows = store]})
    /\ fired = {}
    /\ ops = 0

NextForm ==
    \/ \E c \in Chats : cmd_add(c)
    \/ \E c \in Chats, text \in NameTexts : process_name(c, text)
    \/ \E c \in Chats, d \in DateTexts : process_date(c, d)
    \/ \E c \in Chats, x \in DescriptionTexts : process_description(c, x)
    \/ \E c \in Chats, un \in AddUsernames : process_username(c, un)
    \/ \E c \in Chats, rt \in TimeTexts : process_time(c, rt)
    \/ \E c \in Chats, a \in Answers : process_confirm(c, a)
    \/ \E c \in Chats : cmd_settings(c)
    \/ \E c \in Chats, text \in Names \cup {"cancel", "Boris"} : process_settings_name(c, text)
    \/ \E c \in Chats, a \in {"time", "cancel", "other"} : process_settings_parameter(c, a)
    \/ \E c \in Chats, rt \in TimeTexts \cup {CancelButton} : process_settings_value(c, rt)
    \/ \E t \in Running : Rehydrate(t)
    \/ \E t \in Running : ConfirmCheck(t)
    \/ \E t \in Running : ConfirmInsert(t)
    \/ \E t \in Running : TimeUpdate(t)
    \/ \E t \in Running : TimeRemove(t)
    \/ \E t \in Running : ArmSelect(t)
    \/ \E t \in Running : ArmAdd(t)
    \/ \E t \in Running : ArmDesc(t)
    \/ \E t \in Running : Clear(t)
    \/ \E t \in Running : Raised(t)

SpecForm == InitForm /\ [][NextForm]_vars

\* date d is later than date e, both <<DD, MM, YYYY>>
DateAfter(d, e) ==
    \/ d[3] > e[3]
    \/ d[3] = e[3] /\ d[2] > e[2]
    \/ d[3] = e[3] /\ d[2] = e[2] /\ d[1] > e[1]

\* a date text that validation rejects: malformed, no calendar date, or
\* later than today
RejectedDate(d) ==
    d = MalformedDate \/ ~ValidDate(d[3], d[2], d[1]) \/ DateAfter(d, MoscowDate(now))

\* a time text that validation rejects: malformed or out of range
RejectedTime(rt) ==
    rt = MalformedTime \/ rt[1] \notin 0..23 \/ rt[2] \notin 0..59

\* C21: a validation failure changes no state: a rejected birthdate, a
\* rejected time in the add form and in the settings form, and the
\* confirmation of a name the owner already has, each leave the rows of the
\* store and the pending jobs as they were
C21_ValidationChangesNothing ==
    /\ [][\A c \in Chats :
            (\/ \E d \in DateTexts : process_date(c, d) /\ RejectedDate(d)
             \/ \E rt \in TimeTexts : process_time(c, rt) /\ RejectedTime(rt)
             \/ \E rt \in TimeTexts : process_settings_value(c, rt) /\ RejectedTime(rt))
            => store' = store /\ jobs' = jobs /\ sessions' = sessions]_vars
    /\ [][\A t \in Running :
            (/\ t.h = "confirm"
             /\ ByUser(store, t.name, t.user) # {}
             /\ ConfirmCheck(t) \/ ConfirmInsert(t))
            => store' = store /\ jobs' = jobs]_vars

\* the step of the add form from which a step is entered
PrevStep(f) ==
    CASE f = "waiting_for_date" -> "waiting_for_name"
      [] f = "waiting_for_description" -> "waiting_for_date"
      [] f = "waiting_for_username" -> "waiting_for_description"
      [] f = "waiting_for_time" -> "waiting_for_username"
      [] f = "confirm_add" -> "waiting_for_time"

\* a name, a birthdate and a time that pass validation at now
ValidInputs(n, bd, rt) ==
    /\ Len(n) > 1
    /\ bd # MalformedDate /\ ValidDate(bd[3], bd[2], bd[1])
    /\ ~DateAfter(bd, MoscowDate(now))
    /\ rt # MalformedTime /\ rt[1] \in 0..23 /\ rt[2] \in 0..59

\* C22: a subscription is created only after explicit confirmation: the
\* confirm step is entered from the time step, and each step of the add
\* form from the one before it; a session at the confirm step and a running
\* process_confirm carry inputs that pass validation; a row is inserted only
\* by process_confirm, which runs only on the answer save at the confirm
\* step; the answer cancel and any other answer start nothing and change
\* neither the store nor the jobs
C22_CreatedOnlyOnConfirm ==
    /\ [](\A c \in Chats :
            sessions[c].form = "confirm_add" =>
                ValidInputs(sessions[c].name, sessions[c].bd, sessions[c].rt))
    /\ [](\A t \in Running :
            t.h = "confirm" => ValidInputs(t.name, t.bd, t.rt))
    /\ [][\A c \in Chats :
            (/\ sessions'[c].form # sessions[c].form
             /\ sessions'[c].form \in {"waiting_for_date", "waiting_for_description",
                                       "waiting_for_username", "waiting_for_time",
                                       "confirm_add"})
            => sessions[c].form = PrevStep(sessions'[c].form)]_vars
    /\ [][Len(store') > Len(store) =>
            \E t \in Running : t.h = "confirm" /\ ConfirmInsert(t)]_vars
    /\ [][(\E t \in BagToSet(tasks') :
              t.h = "confirm" /\ t.pc = "check" /\ CopiesIn(t, tasks') > CopiesIn(t, tasks))
            => \E c \in Chats : sessions[c].form = "confirm_add" /\ process_confirm(c, "save")]_vars
    /\ [][\A c \in Chats :
            (process_confirm(c, "cancel") \/ process_confirm(c, "other"))
            => store' = store /\ jobs' = jobs /\ tasks' = tasks]_vars

\* a subscription created through the form in chat 2, and armed
C22_CreatedInChatTwo ==
    /\ \E i \in 1..Len(store) : store[i].chat = 2
    /\ \E j \in jobs : j.chat = 2 /\ j.kind = "annual"
    /\ sessions[2].form = "none"

\* C26: birthdate validation compares dates: at the date step a well-formed
\* calendar date not later than today's date in Moscow is accepted whatever
\* the time of day (the session goes on to the description step with it),
\* and a later date is rejected and leaves the session in the date step
C26_DateLevelComparison ==
    /\ [](\A c \in Chats, d \in DateTexts \ {MalformedDate} :
            (/\ Polling /\ sessions[c].form = "waiting_for_date"
             /\ ValidDate(d[3], d[2], d[1])
             /\ ~DateAfter(d, MoscowDate(now)))
            => ENABLED (/\ process_date(c, d)
                        /\ sessions'[c].form = "waiting_for_description"
                        /\ sessions'[c].bd = d))
    /\ [][\A c \in Chats, d \in DateTexts \ {MalformedDate} :
            (/\ process_date(c, d)
             /\ ValidDate(d[3], d[2], d[1])
             /\ DateAfter(d, MoscowDate(now)))
            => sessions' = sessions /\ sessions[c].form = "waiting_for_date"]_vars

\* the date of today was typed one second before midnight, and accepted
C26_TodayAcceptedLate ==
    /\ now = ToUTC(DT(2024, 5, 10, 23, 59, 59))
    /\ \E c \in Chats :
         sessions[c].form = "waiting_for_description" /\ sessions[c].bd = <<10, 5, 2024>>

----------------------------------------------------------------------------
(* Ages: one stored row over many birth years, the list command and the    *)
(* birthday messages                                                       *)

AgeBirthdates ==
    {<<15, 5, y>> : y \in {1965, 1966, 1990, 1999, 2000, 2007, 2008, 2012, 2013}}
      \cup {<<20, 5, 2007>>, <<1, 1, 2012>>}
\* the instants at which the bot starts: before, on and after 15 May
AgeInstants ==
    {StartInstant, ToUTC(DT(2024, 5, 15, 9, 0, 0)), ToUTC(DT(2024, 5, 20, 12, 0, 0))}

\* a line of the answer of /list: the age on the next birthday
ListLine(c, row) ==
    [chat |-> c, name |-> row.name, kind |-> "list", at |-> now, un |-> row.un,
     age |-> calculate_age_on_date(row.bd, get_next_birthday(row.bd, row.rt, now).dt),
     category |-> "-"]

\* cmd_list: the rows of the user, one message each; a ValueError of
\* get_next_birthday leaves the handler before any row is shown
cmd_list(c) ==
    /\ Polling
    /\ \E u \in Users :
         LET rows == {store[i] : i \in {k \in 1..Len(store) : store[k].user = u}}
         IN  fired' = IF \A row \in rows : get_next_birthday(row.bd, row.rt, now).ok
                      THEN fired \cup {ListLine(c, row) : row \in rows}
                      ELSE fired
    /\ UNCHANGED <<now, phase, store, jobs, sessions, tasks, ops>>

InitAge ==
    /\ now \in AgeInstants
    /\ phase = "starting"
    /\ store \in {<<Row(1, 1, "Anna", bd, None, <<9, 0>>, <<0, 0, 1>>)>> :
                    bd \in AgeBirthdates}
    /\ jobs = {}
    /\ sessions = [c \in Chats |-> NoSession]
    /\ tasks = SetToBag({[Task("main", "rehydrate") EXCEPT !.rows = store]})
    /\ fired = {}
    /\ ops = 0

NextAge ==
    \/ \E t \in Running : Rehydrate(t)
    \/ \E t \in Running : ArmSelect(t)
    \/ \E t \in Running : ArmAdd(t)
    \/ \E t \in Running : ArmDesc(t)
    \/ \E t \in Running : JobRun(t)
    \/ \E c \in {1} : cmd_list(c)
    \/ ProcessJobs
    \/ Tick

SpecAge == InitAge /\ [][NextAge]_vars

\* ages checked by C25
MaxAge == 120

\* the age the claims state: the difference of the years, minus one when
\* (asOf.month, asOf.day) precedes (B.month, B.day); asOf is <<DD, MM, YYYY>>
ClaimedAge(bd, asOf) ==
    asOf[3] - bd[3]
      - (IF asOf[2] < bd[2] \/ (asOf[2] = bd[2] /\ asOf[1] < bd[1]) THEN 1 ELSE 0)

\* C24: for a stored birthdate B and the date asOf of now, calculate_age and
\* calculate_age_on_date give asOf.year - B.year, minus 1 exactly when asOf's
\* (month, day) precedes B's: the number of anniversaries of B up to asOf;
\* 15.05.1990 gives 33 on 10.05.2024 and 34 on 15.05.2024 and on 20.05.2024;
\* and /list shows the age reached on the next birthday
C24_AgeByCalendar ==
    /\ \A i \in 1..Len(store) :
         LET bd   == store[i].bd
             asOf == MoscowDate(now)
             age  == calculate_age_on_date(bd, DT(asOf[3], asOf[2], asOf[1], 0, 0, 0))
         IN  /\ age = ClaimedAge(bd, asOf)
             /\ age = calculate_age(bd, now)
             /\ age = Cardinality({y \in (bd[3] + 1)..asOf[3] :
                                     ~DateAfter(<<bd[1], bd[2], y>>, asOf)})
             /\ (bd = <<15, 5, 1990>> /\ asOf = <<10, 5, 2024>>) => age = 33
             /\ (bd = <<15, 5, 1990>> /\ asOf = <<15, 5, 2024>>) => age = 34
             /\ (bd = <<15, 5, 1990>> /\ asOf = <<20, 5, 2024>>) => age = 34
    /\ \A f \in fired :
         f.kind = "list" =>
             LET nb == get_next_birthday(store[1].bd, store[1].rt, f.at).dt
             IN  f.age = ClaimedAge(store[1].bd, <<nb.day, nb.month, nb.year>>)

\* on 10.05.2024 the age of 15.05.1990 is 33, and /list has shown 34
C24_ThirtyThreeBeforeBirthday ==
    /\ store[1].bd = <<15, 5, 1990>> /\ MoscowDate(now) = <<10, 5, 2024>>
    /\ calculate_age(store[1].bd, now) = 33
    /\ \E f \in fired : f.kind = "list" /\ f.age = 34

\* the category the claim states for an age
ClaimedCategory(age) ==
    CASE age \in 0..12 -> "child"
      [] age \in 13..17 -> "teen"
      [] age \in 18..25 -> "young_adult"
      [] age \in 26..59 -> "adult"
      [] OTHER -> "elder"

\* C25: get_age_category is total on the ages 0..MaxAge and partitions them
\* with inclusive lower bounds 13, 18, 26 and 60; every category it returns,
\* and every category of a congratulation sent, has a list of gifts
C25_AgeCategoryPartition ==
    /\ \A age \in 0..MaxAge :
         /\ get_age_category(age) = ClaimedCategory(age)
         /\ get_age_category(age) \in DOMAIN GIFT_IDEAS
         /\ GIFT_IDEAS[get_age_category(age)] > 0
    /\ \A f \in fired :
         f.kind = "day_congrats" =>
             /\ f.category = ClaimedCategory(f.age)
             /\ f.category \in DOMAIN GIFT_IDEAS

\* a congratulation was made for the age 13, the first of the class teen
C25_TeenAtThirteen ==
    \E f \in fired : f.kind = "day_congrats" /\ f.age = 13 /\ f.category = "teen"

\* C30: the age of the congratulation sent on the birthday is the age
\* reached on that birthday, the occurrence's year minus the birth year;
\* it is the age /list showed for that occurrence, and the gift category is
\* the one of that age
C30_CongratsAgeIsAgeReached ==
    \A f \in fired :
        f.kind = "day_congrats" =>
            LET bd      == store[1].bd
                reached == MoscowDate(f.at)[3] - bd[3]
            IN  /\ f.age = reached
                /\ f.category = ClaimedCategory(reached)
                /\ \A g \in fired :
                     (/\ g.kind = "list" /\ g.at <= f.at
                      /\ get_next_birthday(bd, store[1].rt, g.at).dt.year
                           = MoscowDate(f.at)[3])
                     => g.age = f.age

----------------------------------------------------------------------------
(* The ends of the sessions: the three forms with every branch of their    *)
(* last steps, the reminders and username values and the delete form       *)
(* included                                                                *)

\* texts at the value step of the reminders parameter: the buttons of the
\* first menu (enable all, disable all, manual), a toggle and Save of the
\* manual menu, cancel, and a text that is no button
ReminderTexts == {"all_on", "all_off", "manual", "toggle", "save", "cancel", "other"}

\* process_settings_value, parameter reminders (lines 744-839): cancel
\* clears; the manual button and a toggle answer and return, the step stays
\* (the manual flags they keep in the session data are the choice of Save
\* here); a text that is no button is asked again; enable all, disable all
\* and Save start the update
process_settings_value_reminders(c, x) ==
    /\ Polling
    /\ sessions[c].form = "settings_value" /\ sessions[c].param = "reminders"
    /\ IF x = "cancel"
       THEN /\ sessions' = [sessions EXCEPT ![c] = NoSession]
            /\ UNCHANGED tasks
       ELSE IF x \in {"manual", "toggle", "other"}
       THEN UNCHANGED <<sessions, tasks>>
       ELSE /\ \E u \in Users,
                  r \in (IF x = "all_on" THEN {<<1, 1, 1>>}
                         ELSE IF x = "all_off" THEN {<<0, 0, 0>>}
                         ELSE FlagChoices) :
                 Spawn(Handler("flags", "update", c, u, NoRt, NoUn, r))
            /\ UNCHANGED sessions
    /\ UNCHANGED <<now, phase, store, jobs, fired, ops>>

\* process_settings_value, parameter username (lines 841-872): cancel
\* clears; any other text is a handle, or the word that removes it
process_settings_value_username(c, un) ==
    /\ Polling
    /\ sessions[c].form = "settings_value" /\ sessions[c].param = "username"
    /\ IF un = "cancel"
       THEN /\ sessions' = [sessions EXCEPT ![c] = NoSession]
            /\ UNCHANGED tasks
       ELSE /\ \E u \in Users :
                 Spawn(Handler("username", "update", c, u, NoRt, un, NoFlags))
            /\ UNCHANGED sessions
    /\ UNCHANGED <<now, phase, store, jobs, fired, ops>>

\* cmd_delete: without rows of the user nothing is set.  It is registered
\* after the handlers of the add and settings forms: in their steps that
\* take any text the command is that step's input
cmd_delete(c) ==
    /\ Polling
    /\ ops < MaxForms
    /\ sessions[c].form \in {"none", "waiting_for_date", "waiting_for_time",
                             "waiting_for_name_to_delete", "confirm_delete"}
    /\ sessions' = IF \E u \in Users, i \in 1..Len(store) : store[i].user = u
                   THEN [sessions EXCEPT ![c].form = "waiting_for_name_to_delete"]
                   ELSE sessions
    /\ ops' = ops + 1
    /\ UNCHANGED <<now, phase, store, jobs, tasks, fired>>

\* process_delete_name: cancel and an unknown name clear the state; a known
\* name is kept with the row's birthdate for the confirmation
process_delete_name(c, text) ==
    /\ Polling
    /\ sessions[c].form = "waiting_for_name_to_delete"
    /\ \E u \in Users :
         sessions' =
           IF text = "cancel" \/ ByUser(store, text, u) = {}
           THEN [sessions EXCEPT ![c] = NoSession]
           ELSE [sessions EXCEPT ![c].form = "confirm_delete", ![c].name = text,
                                 ![c].bd = First(store, ByUser(store, text, u)).bd]
    /\ UNCHANGED <<now, phase, store, jobs, tasks, fired, ops>>

\* process_confirm_delete: the save button starts the deletion (lines
\* 944-951); any other answer declines it; state.clear() ends both
process_confirm_delete(c, a) ==
    /\ Polling
    /\ sessions[c].form = "confirm_delete"
    /\ IF a = "save"
       THEN /\ \E u \in Users :
                 Spawn(Handler("delete", "delete", c, u, NoRt, NoUn, NoFlags))
            /\ UNCHANGED sessions
       ELSE /\ sessions' = [sessions EXCEPT ![c] = NoSession]
            /\ UNCHANGED tasks
    /\ UNCHANGED <<now, phase, store, jobs, fired, ops>>

NextEnd ==
    \/ \E c \in Chats : cmd_add(c)
    \/ \E c \in Chats, text \in NameTexts : process_name(c, text)
    \/ \E c \in Chats, d \in DateTexts : process_date(c, d)
    \/ \E c \in Chats, x \in DescriptionTexts : process_description(c, x)
    \/ \E c \in Chats, un \in AddUsernames : process_username(c, un)
    \/ \E c \in Chats, rt \in TimeTexts : process_time(c, rt)
    \/ \E c \in Chats, a \in Answers : process_confirm(c, a)
    \/ \E c \in Chats : cmd_settings(c)
    \/ \E c \in Chats, text \in Names \cup {"cancel", "Boris"} : process_settings_name(c, text)
    \/ \E c \in Chats, a \in {"time", "reminders", "username", "cancel", "other"} :
         process_settings_parameter(c, a)
    \/ \E c \in Chats, rt \in TimeTexts \cup {CancelButton} : process_settings_value(c, rt)
    \/ \E c \in Chats, x \in ReminderTexts : process_settings_value_reminders(c, x)
    \/ \E c \in Chats, un \in EditUsernames \cup {"cancel"} :
         process_settings_value_username(c, un)
    \/ \E c \in Chats : cmd_delete(c)
    \/ \E c \in Chats, text \in Names \cup {"cancel", "Boris"} : process_delete_name(c, text)
    \/ \E c \in Chats, a \in Answers : process_confirm_delete(c, a)
    \/ \E t \in Running : Rehydrate(t)
    \/ \E t \in Running : ConfirmCheck(t)
    \/ \E t \in Running : ConfirmInsert(t)
    \/ \E t \in Running : TimeUpdate(t)
    \/ \E t \in Running : TimeRemove(t)
    \/ \E t \in Running : FlagsUpdate(t)
    \/ \E t \in Running : FlagsRemove(t)
    \/ \E t \in Running : UsernameUpdate(t)
    \/ \E t \in Running : DeleteCommit(t)
    \/ \E t \in Running : DeleteRemove(t)
    \/ \E t \in Running : ArmSelect(t)
    \/ \E t \in Running : ArmAdd(t)
    \/ \E t \in Running : ArmDesc(t)
    \/ \E t \in Running : Clear(t)
    \/ \E t \in Running : Raised(t)

SpecEnd == InitForm /\ [][NextEnd]_vars

\* the handlers that a form's last step starts
FormHandlers == {"confirm", "time", "flags", "username", "delete"}

\* a handler of chat c ends in this step
HandlerEnds(c) ==
    \E t \in Running :
        /\ t.chat = c /\ t.h \in FormHandlers
        /\ tasks' = tasks (-) SetToBag({t})

\* the owner's answer in chat c ends the session without a handler's work:
\* cancel in any step that offers it, a name the owner has no row for, a
\* declined deletion
EndingAnswer(c) ==
    \/ process_confirm(c, "cancel")
    \/ \E text \in {"cancel", "Boris"} : process_settings_name(c, text)
    \/ process_settings_parameter(c, "cancel")
    \/ process_settings_value(c, CancelButton)
    \/ process_settings_value_reminders(c, "cancel")
    \/ process_settings_value_username(c, "cancel")
    \/ \E text \in {"cancel", "Boris"} : process_delete_name(c, text)
    \/ \E a \in {"cancel", "other"} : process_confirm_delete(c, a)

\* the owner's input in chat c is rejected: an invalid date, an invalid
\* time, a text that is no button of the menu
RejectedInput(c) ==
    \/ \E d \in DateTexts : process_date(c, d) /\ RejectedDate(d)
    \/ \E rt \in TimeTexts : process_time(c, rt) /\ RejectedTime(rt)
    \/ \E rt \in TimeTexts : process_settings_value(c, rt) /\ RejectedTime(rt)
    \/ process_settings_parameter(c, "other")
    \/ process_settings_value_reminders(c, "other")
    \/ process_confirm(c, "other")

\* the answers that end a session clear it, and a rejected input leaves
\* the session, the store and the pending jobs as they were
AnswersEndRejectionsKeep ==
    /\ [][\A c \in Chats : EndingAnswer(c) => sessions'[c] = NoSession]_vars
    /\ [][\A c \in Chats :
            RejectedInput(c) =>
                sessions' = sessions /\ store' = store /\ jobs' = jobs]_vars

\* C31: every add, settings and delete session ends with the conversation
\* state cleared: when a handler started by a form's last step ends (saved,
\* duplicate name, time, flags or handle updated, deleted), and when an
\* answer ends the session (cancelled, name not found, deletion declined),
\* the chat's state and session data are empty afterwards; a rejected input
\* leaves the session, the store and the pending jobs as they were
C31_SessionsEndCleared ==
    /\ [][\A c \in Chats : HandlerEnds(c) => sessions'[c] = NoSession]_vars
    /\ AnswersEndRejectionsKeep

==========================================================================
